---- MODULE Spec2Model ----
(***************************************************************************)
(* Atomic facade of HotSpot for solaris_sparc (atomic_solaris_sparc.hpp).  *)
(* Memory is byte addressed and big endian, as on SPARC.  A run has a      *)
(* fixed number of threads; every thread invokes operations of the facade  *)
(* on one shared location and each operation body executes as the single   *)
(* instruction (or the single primitive call) the source gives it.         *)
(***************************************************************************)
EXTENDS Bags, FiniteSets, Integers, Sequences, TLC

\* ---------------------------------------------------------------- bounds
\* Bits of one byte (8 in the program, scaled down).
BitsPerByte == 1
\* Number of threads calling into the facade.
NThreads == 2
\* Calls made in one run, by all threads together.
MaxCalls == 2
\* Bytes of memory modelled below and above the shared object.
GuardBytes == 1

Threads == 1..NThreads

RECURSIVE Pow2(_)
Pow2(n) == IF n = 0 THEN 1 ELSE 2 * Pow2(n - 1)

\* ------------------------------------------------------- types and values
\* sizeof(intptr_t) = sizeof(void*): the facade hands intptr_t to the 64 bit
\* primitives _Atomic_swap64 / _Atomic_cas64 / _Atomic_add64.
PtrBytes == 8

SizeOf(ty) ==
  CASE ty = "jbyte"    -> 1
    [] ty = "jshort"   -> 2
    [] ty = "jint"     -> 4
    [] ty = "jlong"    -> 8
    [] ty = "intptr_t" -> PtrBytes
    [] ty = "void*"    -> PtrBytes

\* The function f as an explicit table, so that f[x] is a lookup.
Tabulated(f) == f @@ <<>>

\* Number of bit patterns of an n byte object, tabulated for the sizes in use.
CardTab == Tabulated([n \in 0..SizeOf("jlong") |-> Pow2(n * BitsPerByte)])
Card(n) == CardTab[n]

\* The bit pattern (an unsigned number) of the n byte two's complement value v.
Bits(v, n) == v % Card(n)

\* The signed value of the n byte bit pattern b.
Signed(b, n) == IF 2 * b >= Card(n) THEN b - Card(n) ELSE b

\* C conversions between the integer and pointer types of the facade.
\* (intptr_t)x : keeps the low PtrBytes bytes of x, read as signed.
Cast_intptr(x) == Signed(Bits(x, PtrBytes), PtrBytes)
\* (void*)x : the address with the bit pattern of x.
Cast_voidp(x) == Bits(x, PtrBytes)
\* (jlong)x of an intptr_t return value: value preserving widening.
Cast_jlong(x) == Signed(Bits(x, SizeOf("jlong")), SizeOf("jlong"))

\* ------------------------------------------------------------------ memory
\* The objects a caller can share: one of every type the facade has an
\* overload for; "ptr" is a pointer sized slot reached through intptr_t* and
\* through void*.
Locations == {"jbyte", "jshort", "jint", "jlong", "ptr"}

LocBytes(loc) == IF loc = "ptr" THEN PtrBytes ELSE SizeOf(loc)

\* The object lies at address Base, aligned for every width, between
\* GuardBytes bytes of memory that belong to somebody else.
Base == GuardBytes * SizeOf("jlong")
Addrs(loc) == (Base - GuardBytes)..(Base + LocBytes(loc) + GuardBytes - 1)

\* Big endian read of the n bytes at address a.
RECURSIVE Read(_, _, _)
Read(m, a, n) ==
  IF n = 0 THEN 0
  ELSE Read(m, a, n - 1) * Card(1) + m[a + n - 1]

\* Big endian write of the n byte bit pattern b at address a.
Write(m, a, n, b) ==
  [x \in DOMAIN m |->
     IF x >= a /\ x < a + n
     THEN (b \div Card(a + n - 1 - x)) % Card(1)
     ELSE m[x]]

\* Result of a call: the memory it leaves, the value it returns (hasRet is
\* FALSE for a void function) and the primitives it executed, in order.
Res(m, r, p) == [mem |-> m, ret |-> r, hasRet |-> TRUE, prims |-> p]
ResVoid(m, p) == [mem |-> m, ret |-> 0, hasRet |-> FALSE, prims |-> p]
\* (void)r : the result r with its value discarded.
Discard(r) == [r EXCEPT !.ret = 0, !.hasRet = FALSE]

\* ------------------------------------------- hardware primitives (extern "C")
_Atomic_swap32(exchange_value, dest, m) ==
  Res(Write(m, dest, 4, Bits(exchange_value, 4)),
      Signed(Read(m, dest, 4), 4), <<"_Atomic_swap32">>)

_Atomic_swap64(exchange_value, dest, m) ==
  Res(Write(m, dest, PtrBytes, Bits(exchange_value, PtrBytes)),
      Signed(Read(m, dest, PtrBytes), PtrBytes), <<"_Atomic_swap64">>)

_Atomic_cas32(exchange_value, dest, compare_value, m) ==
  LET old == Read(m, dest, 4)
  IN  Res(IF old = Bits(compare_value, 4)
          THEN Write(m, dest, 4, Bits(exchange_value, 4)) ELSE m,
          Signed(old, 4), <<"_Atomic_cas32">>)

_Atomic_cas64(exchange_value, dest, compare_value, m) ==
  LET old == Read(m, dest, PtrBytes)
  IN  Res(IF old = Bits(compare_value, PtrBytes)
          THEN Write(m, dest, PtrBytes, Bits(exchange_value, PtrBytes)) ELSE m,
          Signed(old, PtrBytes), <<"_Atomic_cas64">>)

_Atomic_add32(inc, dest, m) ==
  LET new == (Read(m, dest, 4) + Bits(inc, 4)) % Card(4)
  IN  Res(Write(m, dest, 4, new), Signed(new, 4), <<"_Atomic_add32">>)

_Atomic_add64(add_value, dest, m) ==
  LET new == (Read(m, dest, PtrBytes) + Bits(add_value, PtrBytes)) % Card(PtrBytes)
  IN  Res(Write(m, dest, PtrBytes, new), Signed(new, PtrBytes), <<"_Atomic_add64">>)

\* ------------------------------------------------------------------ facade
\* store: a plain assignment through the pointer, one store instruction.
store_jbyte(store_value, dest, m) ==
  ResVoid(Write(m, dest, SizeOf("jbyte"), Bits(store_value, SizeOf("jbyte"))), <<>>)
\* Variant: the jshort is stored with a 32 bit store.
store_jshort_wide(store_value, dest, m) ==
  ResVoid(Write(m, dest, SizeOf("jint"), Bits(store_value, SizeOf("jint"))), <<>>)
store_jshort(store_value, dest, m) ==
  ResVoid(Write(m, dest, SizeOf("jshort"), Bits(store_value, SizeOf("jshort"))), <<>>)
store_jint(store_value, dest, m) ==
  ResVoid(Write(m, dest, SizeOf("jint"), Bits(store_value, SizeOf("jint"))), <<>>)
store_ptr_intptr(store_value, dest, m) ==
  ResVoid(Write(m, dest, SizeOf("intptr_t"), Bits(store_value, SizeOf("intptr_t"))), <<>>)
store_ptr_void(store_value, dest, m) ==
  ResVoid(Write(m, dest, SizeOf("void*"), store_value), <<>>)
\* Variant: the store is done as a 32 bit store of the value's upper half.
store_jlong_half(store_value, dest, m) ==
  ResVoid(Write(m, dest, 4, Bits(store_value, SizeOf("jlong")) \div Card(4)), <<>>)
store_jlong(store_value, dest, m) ==
  ResVoid(Write(m, dest, SizeOf("jlong"), Bits(store_value, SizeOf("jlong"))), <<>>)

\* Variant: the load reads a jint, the first four bytes of the object.
load_jlong_narrow(src, m) ==
  Res(m, Signed(Read(m, src, 4), 4), <<>>)
load_jlong(src, m) ==
  Res(m, Signed(Read(m, src, SizeOf("jlong")), SizeOf("jlong")), <<>>)

\* Variant: the sum is clamped to the range of jint instead of wrapping.
add_jint_saturating(add_value, dest, m) ==
  LET s == Signed(Read(m, dest, 4), 4) + add_value
      c == IF s > (Card(4) \div 2) - 1 THEN (Card(4) \div 2) - 1
           ELSE IF s < 0 - (Card(4) \div 2) THEN 0 - (Card(4) \div 2) ELSE s
  IN  Res(Write(m, dest, 4, Bits(c, 4)), c, <<"_Atomic_add32">>)
\* Variant: the addend is swapped in instead of added.
add_jint_swap(add_value, dest, m) == _Atomic_swap32(add_value, dest, m)
add_jint(add_value, dest, m) == _Atomic_add32(add_value, dest, m)

\* Variant: the value before the addition is returned (fetch-and-add).
add_ptr_intptr_old(add_value, dest, m) ==
  [mem |-> _Atomic_add64(add_value, dest, m).mem,
   ret |-> Signed(Read(m, dest, PtrBytes), PtrBytes),
   hasRet |-> TRUE, prims |-> <<"_Atomic_add64">>]
add_ptr_intptr(add_value, dest, m) == _Atomic_add64(add_value, dest, m)

\* Variant: the pointer before the addition is returned.
add_ptr_void_fetch(add_value, dest, m) ==
  LET r == add_ptr_intptr(Cast_intptr(add_value), dest, m)
  IN  [r EXCEPT !.ret = Read(m, dest, PtrBytes)]
add_ptr_void(add_value, dest, m) ==
  LET r == add_ptr_intptr(Cast_intptr(add_value), dest, m)
  IN  [r EXCEPT !.ret = Cast_voidp(@)]

inc_jint(dest, m) == Discard(add_jint(1, dest, m))
inc_ptr_intptr(dest, m) == Discard(add_ptr_intptr(1, dest, m))
\* Variant: the increment is scaled as pointer arithmetic on intptr_t*.
inc_ptr_void_scaled(dest, m) == Discard(add_ptr_void(PtrBytes, dest, m))
inc_ptr_void(dest, m) == Discard(add_ptr_void(1, dest, m))

\* Variant: dec copied from inc without changing the sign of the addend.
dec_jint_plus(dest, m) == Discard(add_jint(1, dest, m))
dec_jint(dest, m) == Discard(add_jint(-1, dest, m))
dec_ptr_intptr(dest, m) == Discard(add_ptr_intptr(-1, dest, m))
dec_ptr_void(dest, m) == Discard(add_ptr_void(-1, dest, m))

\* Variant: the swap is a compare-and-swap against 0 that is not retried.
xchg_jint_cas(exchange_value, dest, m) == _Atomic_cas32(exchange_value, dest, 0, m)
xchg_jint(exchange_value, dest, m) == _Atomic_swap32(exchange_value, dest, m)

\* Variant: the value stored is returned instead of the prior contents.
xchg_ptr_intptr_new(exchange_value, dest, m) ==
  [_Atomic_swap64(exchange_value, dest, m) EXCEPT !.ret = exchange_value]
xchg_ptr_intptr(exchange_value, dest, m) == _Atomic_swap64(exchange_value, dest, m)

xchg_ptr_void(exchange_value, dest, m) ==
  LET r == xchg_ptr_intptr(Cast_intptr(exchange_value), dest, m)
  IN  [r EXCEPT !.ret = Cast_voidp(@)]

\* cmpxchg_memory_order, the type of the ordering hint.
Orders == {"memory_order_relaxed", "memory_order_conservative"}

\* Variant: compare_value is returned instead of the prior contents.
cmpxchg_jint_echo(exchange_value, dest, compare_value, order, m) ==
  [_Atomic_cas32(exchange_value, dest, compare_value, m)
     EXCEPT !.ret = compare_value]
\* Variant: the conservative order brackets the primitive with a fence.
cmpxchg_jint_fenced(exchange_value, dest, compare_value, order, m) ==
  IF order = "memory_order_conservative"
  THEN [mem |-> _Atomic_cas32(exchange_value, dest, compare_value, m).mem,
        ret |-> _Atomic_cas32(exchange_value, dest, compare_value, m).ret,
        hasRet |-> TRUE, prims |-> <<"membar", "_Atomic_cas32">>]
  ELSE _Atomic_cas32(exchange_value, dest, compare_value, m)
cmpxchg_jint(exchange_value, dest, compare_value, order, m) ==
  _Atomic_cas32(exchange_value, dest, compare_value, m)

\* Variant: the operands are narrowed to jint and only the low word of the
\* jlong is compared and exchanged.
cmpxchg_jlong_low32(exchange_value, dest, compare_value, order, m) ==
  LET r == _Atomic_cas32(Signed(Bits(exchange_value, 4), 4), dest + 4,
                         Signed(Bits(compare_value, 4), 4), m)
  IN  [r EXCEPT !.ret = Cast_jlong(@)]
\* Variant: a failed compare is retried once before the call returns.
cmpxchg_jlong_retry(exchange_value, dest, compare_value, order, m) ==
  LET r == _Atomic_cas64(Cast_intptr(exchange_value), dest,
                         Cast_intptr(compare_value), m)
  IN  [r EXCEPT !.ret = Cast_jlong(@),
                !.prims = IF r.mem = m /\ exchange_value # compare_value
                          THEN @ \o @ ELSE @]
cmpxchg_jlong(exchange_value, dest, compare_value, order, m) ==
  LET r == _Atomic_cas64(Cast_intptr(exchange_value), dest,
                         Cast_intptr(compare_value), m)
  IN  [r EXCEPT !.ret = Cast_jlong(@)]

\* Variant: the store is unconditional, the comparison only picks the result.
cmpxchg_ptr_intptr_always(exchange_value, dest, compare_value, order, m) ==
  _Atomic_swap64(exchange_value, dest, m)
\* Variant: exchange_value and compare_value are passed in each other's place.
cmpxchg_ptr_intptr_swapped(exchange_value, dest, compare_value, order, m) ==
  _Atomic_cas64(compare_value, dest, exchange_value, m)
cmpxchg_ptr_intptr(exchange_value, dest, compare_value, order, m) ==
  _Atomic_cas64(exchange_value, dest, compare_value, m)

\* Variant: the pointers are narrowed to jint on the way to the primitive.
cmpxchg_ptr_void_narrow(exchange_value, dest, compare_value, order, m) ==
  [mem |-> _Atomic_cas32(Signed(Bits(exchange_value, 4), 4), dest,
                         Signed(Bits(compare_value, 4), 4), m).mem,
   ret |-> Cast_voidp(_Atomic_cas32(Signed(Bits(exchange_value, 4), 4), dest,
                                    Signed(Bits(compare_value, 4), 4), m).ret),
   hasRet |-> TRUE, prims |-> <<"_Atomic_cas32">>]
cmpxchg_ptr_void(exchange_value, dest, compare_value, order, m) ==
  LET r == cmpxchg_ptr_intptr(Cast_intptr(exchange_value), dest,
                              Cast_intptr(compare_value), order, m)
  IN  [r EXCEPT !.ret = Cast_voidp(@)]

\* ------------------------------------------------------------ the callers
\* The overloads applicable to a location, and the operations each type has.
TypesAt(loc) == IF loc = "ptr" THEN {"intptr_t", "void*"} ELSE {loc}

OpsOf(ty) ==
  CASE ty \in {"jbyte", "jshort"}        -> {"store"}
    [] ty = "jlong"                      -> {"store", "load", "cmpxchg"}
    [] ty \in {"jint", "intptr_t", "void*"} ->
         {"store", "add", "inc", "dec", "xchg", "cmpxchg"}

\* The n byte signed values among the candidates xs.
InRange(xs, n) ==
  {x \in xs : x >= 0 - (Card(n) \div 2) /\ x <= (Card(n) \div 2) - 1}

\* Contents the location starts with: the two extremes and 0.
StartVals(n) ==
  InRange({0 - (Card(n) \div 2), 0, (Card(n) \div 2) - 1}, n)

\* Values passed as store_value, exchange_value and compare_value: the most
\* negative value (only its top bit set), 0 and 1.
SignedArgs(n) == InRange({0 - (Card(n) \div 2), 0, 1}, n)

ArgVals(ty) ==
  IF ty = "void*" THEN {Bits(x, SizeOf(ty)) : x \in SignedArgs(SizeOf(ty))}
                  ELSE SignedArgs(SizeOf(ty))

\* Values passed as add_value (intptr_t in both add_ptr overloads).
AddVals(ty) ==
  InRange({-1, 1, (Card(SizeOf(ty)) \div 2) - 1}, SizeOf(ty))

\* The least and the greatest value of type ty.
MinOf(ty) == IF ty = "void*" THEN 0 ELSE 0 - (Card(SizeOf(ty)) \div 2)
MaxOf(ty) == IF ty = "void*" THEN Card(SizeOf(ty)) - 1
                            ELSE (Card(SizeOf(ty)) \div 2) - 1

\* Values passed as store_value: the argument values and the greatest value.
StoreVals(ty) == ArgVals(ty) \cup {MaxOf(ty)}

NoOrder == "none"
Call(op, ty, a1, a2, order) ==
  [op |-> op, ty |-> ty, a1 |-> a1, a2 |-> a2, order |-> order]
NoCall == Call("none", "none", 0, 0, NoOrder)

CallsOf(ty) ==
  LET ops == OpsOf(ty)
  IN  {Call("store", ty, v, 0, NoOrder) : v \in StoreVals(ty)}
      \cup (IF "load" \in ops THEN {Call("load", ty, 0, 0, NoOrder)} ELSE {})
      \cup (IF "add" \in ops
            THEN {Call("add", ty, v, 0, NoOrder) : v \in AddVals(ty)} ELSE {})
      \cup (IF "inc" \in ops THEN {Call("inc", ty, 0, 0, NoOrder)} ELSE {})
      \cup (IF "dec" \in ops THEN {Call("dec", ty, 0, 0, NoOrder)} ELSE {})
      \cup (IF "xchg" \in ops
            THEN {Call("xchg", ty, v, 0, NoOrder) : v \in ArgVals(ty)} ELSE {})
      \cup (IF "cmpxchg" \in ops
            THEN {Call("cmpxchg", ty, v, c, o) :
                    v \in ArgVals(ty), c \in ArgVals(ty), o \in Orders}
            ELSE {})

CallsOn(loc) == UNION {CallsOf(ty) : ty \in TypesAt(loc)}

Ops == {"store", "load", "add", "inc", "dec", "xchg", "cmpxchg"}

\* The calls of operation op that can be made on location loc, tabulated.
CallsTab ==
  Tabulated([k \in Locations \X Ops |-> {c \in CallsOn(k[1]) : c.op = k[2]}])

\* Overload resolution: the body the compiler selects for a call.
Dispatch(c, dest, m) ==
  CASE c.op = "store" /\ c.ty = "jbyte"      -> store_jbyte(c.a1, dest, m)
    [] c.op = "store" /\ c.ty = "jshort"     -> store_jshort(c.a1, dest, m)
    [] c.op = "store" /\ c.ty = "jint"       -> store_jint(c.a1, dest, m)
    [] c.op = "store" /\ c.ty = "jlong"      -> store_jlong(c.a1, dest, m)
    [] c.op = "store" /\ c.ty = "intptr_t"   -> store_ptr_intptr(c.a1, dest, m)
    [] c.op = "store" /\ c.ty = "void*"      -> store_ptr_void(c.a1, dest, m)
    [] c.op = "load"  /\ c.ty = "jlong"      -> load_jlong(dest, m)
    [] c.op = "add"   /\ c.ty = "jint"       -> add_jint(c.a1, dest, m)
    [] c.op = "add"   /\ c.ty = "intptr_t"   -> add_ptr_intptr(c.a1, dest, m)
    [] c.op = "add"   /\ c.ty = "void*"      -> add_ptr_void(c.a1, dest, m)
    [] c.op = "inc"   /\ c.ty = "jint"       -> inc_jint(dest, m)
    [] c.op = "inc"   /\ c.ty = "intptr_t"   -> inc_ptr_intptr(dest, m)
    [] c.op = "inc"   /\ c.ty = "void*"      -> inc_ptr_void(dest, m)
    [] c.op = "dec"   /\ c.ty = "jint"       -> dec_jint(dest, m)
    [] c.op = "dec"   /\ c.ty = "intptr_t"   -> dec_ptr_intptr(dest, m)
    [] c.op = "dec"   /\ c.ty = "void*"      -> dec_ptr_void(dest, m)
    [] c.op = "xchg"  /\ c.ty = "jint"       -> xchg_jint(c.a1, dest, m)
    [] c.op = "xchg"  /\ c.ty = "intptr_t"   -> xchg_ptr_intptr(c.a1, dest, m)
    [] c.op = "xchg"  /\ c.ty = "void*"      -> xchg_ptr_void(c.a1, dest, m)
    [] c.op = "cmpxchg" /\ c.ty = "jint"     ->
         cmpxchg_jint(c.a1, dest, c.a2, c.order, m)
    [] c.op = "cmpxchg" /\ c.ty = "jlong"    ->
         cmpxchg_jlong(c.a1, dest, c.a2, c.order, m)
    [] c.op = "cmpxchg" /\ c.ty = "intptr_t" ->
         cmpxchg_ptr_intptr(c.a1, dest, c.a2, c.order, m)
    [] c.op = "cmpxchg" /\ c.ty = "void*"    ->
         cmpxchg_ptr_void(c.a1, dest, c.a2, c.order, m)

\* ------------------------------------------------------------------- state
VARIABLES
  target,    \* the location the threads of this run share
  V0,        \* bit pattern the location holds at the start
  mem,       \* memory: address -> byte
  pc,        \* per thread: "idle", or "called" (inside a facade function)
  cur,       \* per thread: the operation it is inside
  done,      \* per thread: calls returned so far
  last,      \* the call that returned most recently, with what it saw
  lastCall,  \* the call that returned most recently (last.call)
  lastPut,   \* bit pattern the latest write to the location stored (V0
             \* before the first write)
  fresh,     \* per thread: its own store that no write has followed yet
  casOk,     \* the latest cmpxchg that found its expected value, if no
             \* write has followed it
  onlyAdd1,  \* TRUE while every executed call was add(1, L)
  race,      \* the cmpxchg calls so far, while every call executed was a
             \* cmpxchg expecting V0 with a new value other than V0
  rets,      \* bit patterns the calls have returned, while every executed
             \* call was add(1, L)
  swaps,     \* the values passed to and returned by the xchg calls so far,
             \* as bags, while every executed call was an xchg
  arith      \* the add, inc and dec calls so far, while every executed call
             \* was one of these

vars == <<target, V0, mem, pc, cur, done, last, lastCall, lastPut, fresh, casOk,
          onlyAdd1, race, rets, swaps, arith>>

Dest == Base
Width == LocBytes(target)
Value == Read(mem, Dest, Width)

\* Memory before any call: the location holds v0, the rest a fixed pattern.
Mem0(loc, v0) ==
  Write([a \in Addrs(loc) |-> (a + 1) % Card(1)], Base, LocBytes(loc), v0)

NoFresh == [ok |-> FALSE, v |-> 0]
NoCas == [ok |-> FALSE, n |-> 0, v |-> 0]

NoLast ==
  [call |-> NoCall, pre |-> Mem0("jint", 0), post |-> Mem0("jint", 0),
   ret |-> 0, hasRet |-> FALSE, prims |-> <<>>, wrote |-> FALSE,
   put |-> 0, prevPut |-> 0, prevCas |-> NoCas, prevFresh |-> NoFresh]

\* race: n calls made, nV of them returned V0, win is the new value of the
\* latest call that returned V0, overlap tells that another thread was
\* inside cmpxchg when the first call executed.
NoRace == [ok |-> TRUE, n |-> 0, nV |-> 0, win |-> 0, overlap |-> FALSE]

NoSwaps == [ok |-> TRUE, put |-> EmptyBag, got |-> EmptyBag]

\* What the call c adds to the location.
Delta(c) == CASE c.op = "add" -> c.a1 [] c.op = "inc" -> 1 [] c.op = "dec" -> -1

\* arith: sum is the sum of the deltas at the width of the location, plain
\* tells that no call was an add, net is the number of inc calls less the
\* number of dec calls.
NoArith == [ok |-> TRUE, sum |-> 0, plain |-> TRUE, net |-> 0]

Init ==
  /\ target \in Locations
  /\ V0 \in {Bits(x, LocBytes(target)) : x \in StartVals(LocBytes(target))}
  /\ mem = Mem0(target, V0)
  /\ pc = [t \in Threads |-> "idle"]
  /\ cur = [t \in Threads |-> "none"]
  /\ done = [t \in Threads |-> 0]
  /\ last = NoLast
  /\ lastCall = NoCall
  /\ lastPut = V0
  /\ fresh = [t \in Threads |-> NoFresh]
  /\ casOk = NoCas
  /\ onlyAdd1 = TRUE
  /\ race = NoRace
  /\ rets = {}
  /\ swaps = NoSwaps
  /\ arith = NoArith

RECURSIVE SumDone(_, _)
SumDone(d, n) == IF n = 0 THEN 0 ELSE d[n] + SumDone(d, n - 1)

\* Calls begun so far: the returned ones and the ones in progress.
Begun == SumDone(done, NThreads) + Cardinality({t \in Threads : pc[t] = "called"})

\* A thread enters a facade function.  Threads are interchangeable, so a
\* thread makes its first call only after the threads numbered below it
\* have made theirs: every run is one of these up to the threads' names.
Invoke(t) ==
  /\ pc[t] = "idle"
  /\ Begun < MaxCalls
  /\ \A u \in Threads : u < t => (done[u] > 0 \/ pc[u] = "called")
  /\ \E op \in {o \in Ops : CallsTab[<<target, o>>] # {}} :
       cur' = [cur EXCEPT ![t] = op]
  /\ pc' = [pc EXCEPT ![t] = "called"]
  /\ UNCHANGED <<target, V0, mem, done, last, lastCall, lastPut, fresh, casOk,
                 onlyAdd1, race, rets, swaps, arith>>

\* The body of the function thread t is inside executes and returns.  (The
\* singleton quantifiers only name a value that is used several times.)
Exec(t, op) ==
  /\ pc[t] = "called"
  /\ cur[t] = op
  /\ \E c \in CallsTab[<<target, op>>] :
     /\ lastCall' = c
     /\ \E r \in {Dispatch(c, Dest, mem)} :
        \E before \in {Read(mem, Dest, Width)}, after \in {Read(r.mem, Dest, Width)} :
        LET n      == SizeOf(c.ty)
            found  == op = "cmpxchg" /\ before = Bits(c.a2, n)
            wrote  == \/ op \in {"store", "add", "inc", "dec", "xchg"}
                      \/ r.mem # mem
                      \/ found
            put    == IF op \in {"store", "xchg", "cmpxchg"} THEN Bits(c.a1, n)
                      ELSE after
        IN  /\ mem' = r.mem
            /\ last' = [call |-> c, pre |-> mem, post |-> r.mem,
                        ret |-> r.ret, hasRet |-> r.hasRet, prims |-> r.prims,
                        wrote |-> wrote, put |-> put, prevPut |-> lastPut,
                        prevCas |-> casOk, prevFresh |-> fresh[t]]
            /\ lastPut' = IF wrote THEN put ELSE lastPut
            /\ fresh' = IF op = "store"
                        THEN [u \in Threads |->
                                IF u = t THEN [ok |-> TRUE, v |-> Bits(c.a1, n)]
                                ELSE NoFresh]
                        ELSE IF wrote THEN [u \in Threads |-> NoFresh]
                        ELSE fresh
            /\ casOk' = IF found
                        THEN [ok |-> TRUE, n |-> Bits(c.a1, n), v |-> Bits(c.a2, n)]
                        ELSE IF wrote THEN NoCas
                        ELSE casOk
            /\ onlyAdd1' = (onlyAdd1 /\ op = "add" /\ c.a1 = 1)
            /\ race' =
                 IF /\ race.ok /\ op = "cmpxchg"
                    /\ Bits(c.a2, n) = V0 /\ Bits(c.a1, n) # V0
                 THEN [ok |-> TRUE, n |-> race.n + 1,
                       nV |-> race.nV + (IF Bits(r.ret, n) = V0 THEN 1 ELSE 0),
                       win |-> IF Bits(r.ret, n) = V0 THEN Bits(c.a1, n)
                               ELSE race.win,
                       overlap |-> IF race.n = 0
                                   THEN \E u \in Threads :
                                          u # t /\ cur[u] = "cmpxchg"
                                   ELSE race.overlap]
                 ELSE [NoRace EXCEPT !.ok = FALSE]
            /\ rets' = IF onlyAdd1 /\ op = "add" /\ c.a1 = 1
                       THEN rets \cup {Bits(r.ret, n)} ELSE {}
            /\ swaps' =
                 IF swaps.ok /\ op = "xchg"
                 THEN [ok |-> TRUE,
                       put |-> swaps.put (+) SetToBag({Bits(c.a1, n)}),
                       got |-> swaps.got (+) SetToBag({Bits(r.ret, n)})]
                 ELSE [NoSwaps EXCEPT !.ok = FALSE]
            /\ arith' =
                 IF arith.ok /\ op \in {"add", "inc", "dec"}
                 THEN [ok |-> TRUE,
                       sum |-> (arith.sum + Bits(Delta(c), n)) % Card(n),
                       plain |-> arith.plain /\ op # "add",
                       net |-> arith.net + (IF op = "add" THEN 0 ELSE Delta(c))]
                 ELSE [NoArith EXCEPT !.ok = FALSE, !.plain = FALSE]
  /\ pc' = [pc EXCEPT ![t] = "idle"]
  /\ cur' = [cur EXCEPT ![t] = "none"]
  /\ done' = [done EXCEPT ![t] = @ + 1]
  /\ UNCHANGED <<target, V0>>

Store(t)   == Exec(t, "store")
Load(t)    == Exec(t, "load")
Add(t)     == Exec(t, "add")
Inc(t)     == Exec(t, "inc")
Dec(t)     == Exec(t, "dec")
Xchg(t)    == Exec(t, "xchg")
Cmpxchg(t) == Exec(t, "cmpxchg")

Next ==
  \E t \in Threads :
    \/ Invoke(t)
    \/ Store(t)
    \/ Load(t)
    \/ Add(t)
    \/ Inc(t)
    \/ Dec(t)
    \/ Xchg(t)
    \/ Cmpxchg(t)

Spec == Init /\ [][Next]_vars

\* The body of whatever function thread t is inside executes and returns.
Return(t) ==
  Store(t) \/ Load(t) \/ Add(t) \/ Inc(t) \/ Dec(t) \/ Xchg(t) \/ Cmpxchg(t)

\* A thread inside a facade function keeps being scheduled: the functions
\* are straight-line code, so the processor runs the body to its return.
\* Nothing obliges a thread to make a call.
FairSpec == Spec /\ \A t \in Threads : WF_vars(Return(t))

TypeOK ==
  /\ target \in Locations
  /\ mem \in [Addrs(target) -> 0..(Card(1) - 1)]
  /\ \A t \in Threads : pc[t] \in {"idle", "called"} /\ done[t] \in 0..MaxCalls

\* ------------------------------------------------- the call that returned
LastOp == last.call.op
LastTy == last.call.ty
LastBytes == SizeOf(LastTy)
\* Contents of the location immediately before and after the latest call.
Before == Read(last.pre, Dest, Width)
After == Read(last.post, Dest, Width)
\* The value of type ty that has the bit pattern b.
Typed(b, ty) == IF ty = "void*" THEN b ELSE Signed(b, SizeOf(ty))
NewBits == Bits(last.call.a1, LastBytes)
ExpectedBits == Bits(last.call.a2, LastBytes)
Quiescent == \A t \in Threads : pc[t] = "idle"

\* ---------------------------------------------------------------- claims
\* C1 (as stated): every cmpxchg / cmpxchg_ptr overload returns the value
\* the location held immediately before the operation, and the location
\* holds newValue afterwards if and only if that prior value equals
\* expectedValue; when it differs the location is unchanged.
C1_AsStated ==
  LastOp = "cmpxchg" =>
    /\ last.hasRet /\ last.ret = Typed(Before, LastTy)
    /\ (After = NewBits) <=> (Before = ExpectedBits)
    /\ (Before # ExpectedBits) => last.post = last.pre

\* C1 (amended): every cmpxchg / cmpxchg_ptr overload returns the value the
\* location held immediately before the operation; if that value equals
\* expectedValue the location holds newValue afterwards, otherwise all of
\* memory is unchanged; the returned value equals expectedValue exactly
\* when the store took place.
C1_CmpxchgContract ==
  LastOp = "cmpxchg" =>
    /\ last.hasRet /\ last.ret = Typed(Before, LastTy)
    /\ (Before = ExpectedBits) => After = NewBits
    /\ (Before # ExpectedBits) => last.post = last.pre
    /\ (Bits(last.ret, LastBytes) = ExpectedBits) <=> (Before = ExpectedBits)

\* A cmpxchg has found its expected value and stored a different one while
\* another thread was inside the facade.
C1_Witness ==
  /\ LastOp = "cmpxchg" /\ Before = ExpectedBits /\ After # Before
  /\ \E t \in Threads : pc[t] = "called"

\* C2: when each of the T threads has called add(1, L) exactly once and all
\* calls have returned, L holds V0 + T (the sum taken at the width of L).
C2_NoLostUpdate ==
  (onlyAdd1 /\ Quiescent /\ \A t \in Threads : done[t] = 1) =>
    Value = (V0 + NThreads) % Card(Width)

C2_Witness == onlyAdd1 /\ Quiescent /\ \A t \in Threads : done[t] = 1

\* C3: add / add_ptr return old(L) + D, the value after the addition, and
\* leave L holding that sum (the sum taken at the width of L).
C3_AddReturnsNew ==
  LastOp = "add" =>
    LET sum == (Before + Bits(last.call.a1, LastBytes)) % Card(LastBytes)
    IN  /\ last.hasRet /\ last.ret = Typed(sum, LastTy)
        /\ After = sum

\* An add that changed the location has returned.
C3_Witness == LastOp = "add" /\ After # Before /\ LastTy = "intptr_t"

\* C4: xchg / xchg_ptr return what L held immediately before, leave L
\* holding the new value, and do so in one primitive step.
C4_Xchg ==
  LastOp = "xchg" =>
    /\ last.hasRet /\ last.ret = Typed(Before, LastTy)
    /\ After = NewBits
    /\ Len(last.prims) = 1

C4_Witness == LastOp = "xchg" /\ Before # NewBits /\ Before # V0

\* C5 (as stated): cmpxchg(N, L, V) on L holding V returns V and leaves N;
\* a following cmpxchg(M, L, V), with no write to L in between, returns N
\* and leaves L unchanged, for all N, M and V.
C5_AsStated ==
  LastOp = "cmpxchg" =>
    /\ (Before = ExpectedBits) =>
         (Bits(last.ret, LastBytes) = ExpectedBits /\ After = NewBits)
    /\ (last.prevCas.ok /\ ExpectedBits = last.prevCas.v) =>
         (Bits(last.ret, LastBytes) = last.prevCas.n /\ last.post = last.pre)

\* C5 (amended): cmpxchg(N, L, V) on L holding V returns V and leaves N; if
\* N differs from V, a following cmpxchg(M, L, V) with no write to L in
\* between returns N and leaves L unchanged.
C5_StaleExpected ==
  LastOp = "cmpxchg" =>
    /\ (Before = ExpectedBits) =>
         (Bits(last.ret, LastBytes) = ExpectedBits /\ After = NewBits)
    /\ (last.prevCas.ok /\ ExpectedBits = last.prevCas.v
          /\ last.prevCas.n # last.prevCas.v) =>
         (Bits(last.ret, LastBytes) = last.prevCas.n /\ last.post = last.pre)

\* A second cmpxchg with the stale expected value has returned.
C5_Witness ==
  /\ LastOp = "cmpxchg" /\ last.prevCas.ok
  /\ ExpectedBits = last.prevCas.v /\ last.prevCas.n # last.prevCas.v
  /\ NewBits # Before

\* C6: no value is torn: whatever a call returns is, in full, the value
\* the latest write stored (the initial value before any write) or the
\* value the call itself stored.
C6_NoTornValue ==
  last.hasRet =>
    \/ Bits(last.ret, LastBytes) = last.prevPut
    \/ last.wrote /\ Bits(last.ret, LastBytes) = last.put

\* A 64 bit load has returned a value a store of another pattern wrote.
C6_Witness ==
  /\ LastOp = "load" /\ last.prevPut # V0
  /\ Bits(last.ret, LastBytes) = last.prevPut

\* C7: the ordering hint is not honored: the same cmpxchg with any other
\* hint returns the same value, leaves the same memory and executes the
\* same single primitive.
C7_HintIgnored ==
  LastOp = "cmpxchg" =>
    /\ Len(last.prims) = 1
    /\ \A o \in Orders :
         Dispatch([last.call EXCEPT !.order = o], Dest, last.pre)
           = Res(last.post, last.ret, last.prims)

C7_Witness ==
  /\ LastOp = "cmpxchg" /\ last.call.order = "memory_order_conservative"
  /\ After # Before

\* C8: inc / inc_ptr leave memory as add(1) / add_ptr(1) would, dec /
\* dec_ptr as add(-1) / add_ptr(-1) would, and return nothing.
C8_IncDecAreAdd ==
  LastOp \in {"inc", "dec"} =>
    LET d == IF LastOp = "inc" THEN 1 ELSE -1
    IN  Discard(Dispatch(Call("add", LastTy, d, 0, NoOrder), Dest, last.pre))
          = ResVoid(last.post, last.prims)
        /\ ~last.hasRet

C8_Witness == LastOp = "dec" /\ After # Before /\ SumDone(done, NThreads) >= 2

\* C9: every void* overload returns the bit pattern and leaves the memory
\* that the intptr_t overload does when given the same bit patterns.
C9_PointerAsInteger ==
  LastTy = "void*" =>
    LET c == [last.call EXCEPT !.ty = "intptr_t",
                               !.a1 = Signed(Bits(@, PtrBytes), PtrBytes),
                               !.a2 = Signed(Bits(@, PtrBytes), PtrBytes)]
    IN  [Dispatch(c, Dest, last.pre) EXCEPT !.ret = Bits(@, PtrBytes)]
          = [mem |-> last.post, ret |-> Bits(last.ret, PtrBytes),
             hasRet |-> last.hasRet, prims |-> last.prims]

\* A cmpxchg_ptr(void*) has stored a pointer with the top bit set.
C9_Witness ==
  /\ LastTy = "void*" /\ LastOp = "cmpxchg" /\ After # Before
  /\ 2 * After >= Card(PtrBytes)

\* C10: a load that follows the same thread's store(N, L), with no write
\* to L in between, returns N.
C10_StoreThenLoad ==
  (LastOp = "load" /\ last.prevFresh.ok) =>
    last.ret = Signed(last.prevFresh.v, LastBytes)

C10_Witness ==
  LastOp = "load" /\ last.prevFresh.ok /\ last.prevFresh.v # V0

\* C11: arithmetic wraps at the width of the location: an add whose exact
\* sum leaves the range of the type stores and returns the sum brought back
\* into the range by one multiple of 2^W (add(1) on the greatest value
\* yields the least, add(-1) on the least yields the greatest), and the
\* greatest and the least value of each width are stored, and read back by
\* load, unchanged.
C11_WrapsAtWidth ==
  /\ LastOp = "add" =>
       LET s == Typed(Before, LastTy) + last.call.a1
           w == IF s > MaxOf(LastTy) THEN s - Card(LastBytes)
                ELSE IF s < MinOf(LastTy) THEN s + Card(LastBytes) ELSE s
       IN  /\ last.ret = w /\ Typed(After, LastTy) = w
           /\ (Typed(Before, LastTy) = MaxOf(LastTy) /\ last.call.a1 = 1)
                 => last.ret = MinOf(LastTy)
           /\ (Typed(Before, LastTy) = MinOf(LastTy) /\ last.call.a1 = -1)
                 => last.ret = MaxOf(LastTy)
  /\ (LastOp = "store" /\ last.call.a1 \in {MinOf(LastTy), MaxOf(LastTy)}) =>
       Typed(After, LastTy) = last.call.a1
  /\ (LastOp = "load" /\ Typed(Before, LastTy) \in {MinOf(LastTy), MaxOf(LastTy)}) =>
       last.ret = Typed(Before, LastTy) /\ last.post = last.pre

\* add(1) has returned on a jint that held the greatest value.
C11_Witness ==
  /\ LastOp = "add" /\ LastTy = "jint" /\ last.call.a1 = 1
  /\ Typed(Before, LastTy) = MaxOf(LastTy)

\* C12: every operation is wait-free: a thread inside a call can always
\* take its step whatever state the other threads have left, the call
\* executes at most one primitive (a failing cmpxchg exactly one, changing
\* nothing), and every call that has begun returns.
C12_WaitFree ==
  /\ [](\A t \in Threads : pc[t] = "called" => ENABLED Return(t))
  /\ [](Len(last.prims) <= 1)
  /\ []((LastOp = "cmpxchg" /\ Before # ExpectedBits) =>
          (Len(last.prims) = 1 /\ last.post = last.pre))
  /\ \A t \in Threads : (pc[t] = "called") ~> (pc[t] = "idle")

\* A cmpxchg whose comparison failed has returned while another thread is
\* still inside a call.
C12_Witness ==
  /\ LastOp = "cmpxchg" /\ LastTy = "jlong" /\ Before # ExpectedBits
  /\ NewBits # ExpectedBits
  /\ \E t \in Threads : pc[t] = "called"

\* The upper and the lower 32 bits of a 64 bit pattern.
UpperHalf(b) == b \div Card(4)
LowerHalf(b) == b % Card(4)

Elsewhere == {a \in Addrs(target) : a < Dest \/ a >= Dest + Width}

\* C14: every operation on L leaves every other location as it was; a
\* load and a cmpxchg whose comparison fails leave all of memory as it
\* was; inc and dec change only L and return nothing.
C14_Frame ==
  /\ \A a \in Elsewhere : mem[a] = Mem0(target, V0)[a]
  /\ LastOp # "none" =>
       \A a \in Elsewhere : last.post[a] = last.pre[a]
  /\ (LastOp = "load" \/ (LastOp = "cmpxchg" /\ Before # ExpectedBits)) =>
       last.post = last.pre
  /\ LastOp \in {"inc", "dec"} => ~last.hasRet

\* A store has changed a jshort, the bytes next to it belonging to others.
C14_Witness ==
  /\ LastOp = "store" /\ LastTy = "jshort" /\ After # Before
  /\ Elsewhere # {}

\* C15: when every call made so far is a cmpxchg on L that expects V0 and
\* brings a new value other than V0, exactly one of the calls has returned
\* V0 (the winner) and L holds the winner's new value; every other call
\* has returned the winner's new value and written nothing.
C15_OneWinner ==
  (race.ok /\ race.n >= 1) =>
    /\ race.nV = 1
    /\ Value = race.win
    /\ race.n = 1 => (Bits(last.ret, LastBytes) = V0 /\ After = NewBits)
    /\ race.n > 1 =>
         (Bits(last.ret, LastBytes) = race.win /\ last.post = last.pre)

\* Two threads were inside cmpxchg at once, both expecting V0 with a new
\* value other than V0, and both have returned.
C15_Witness ==
  /\ race.ok /\ race.n = 2 /\ race.overlap
  /\ NewBits # race.win
  /\ \A t \in 1..2 : done[t] = 1

\* Adding 1 n times to V0 passes neither the greatest unsigned nor the
\* greatest signed value of the width.
NoWrap(n) ==
  /\ V0 + n < Card(Width)
  /\ ~(2 * V0 < Card(Width) /\ 2 * (V0 + n) >= Card(Width))

\* C16: when the only calls made are n calls of add(1, L), by whichever
\* threads, and V0 + n does not wrap, the values returned are pairwise
\* distinct and are exactly V0 + 1, ..., V0 + n; so are the T values of T
\* threads that each made one call.
C16_DistinctSums ==
  \A n \in {SumDone(done, NThreads)} :
    (onlyAdd1 /\ n >= 1 /\ NoWrap(n)) =>
      /\ rets = {V0 + k : k \in 1..n}
      /\ Cardinality(rets) = n

\* Every thread has returned from its one add(1, L).
C16_Witness ==
  /\ onlyAdd1 /\ Quiescent /\ NoWrap(NThreads)
  /\ \A t \in Threads : done[t] = 1
  /\ Cardinality(rets) = NThreads

\* The values passed to xchg so far are pairwise distinct and none is V0.
DistinctNew ==
  \A v \in BagToSet(swaps.put) : CopiesIn(v, swaps.put) = 1 /\ v # V0

\* C17: xchg conserves values: when the only calls made are xchg calls on
\* L whose new values are pairwise distinct and differ from V0, the bag of
\* the values returned so far together with the present contents of L is
\* the bag of V0 together with the values passed in, and no value has been
\* returned twice.
C17_XchgConserves ==
  (swaps.ok /\ DistinctNew) =>
    /\ swaps.got (+) SetToBag({Value}) = SetToBag({V0}) (+) swaps.put
    /\ \A v \in BagToSet(swaps.got) : CopiesIn(v, swaps.got) = 1

\* Two xchg calls with distinct new values, neither V0, have returned and
\* no thread is inside a call.
C17_Witness ==
  /\ swaps.ok /\ DistinctNew /\ Quiescent
  /\ BagCardinality(swaps.put) = 2
  /\ BagCardinality(swaps.got) = 2

\* C18: when the only calls made on L are add, inc and dec calls, in any
\* interleaving, L holds V0 plus the sum of all their deltas modulo 2^W
\* once they have returned; as many inc as dec calls, and no add, leave
\* V0.
C18_SumOfDeltas ==
  arith.ok =>
    /\ Value = (V0 + arith.sum) % Card(Width)
    /\ (arith.plain /\ arith.net = 0) => Value = V0

\* An inc by one thread and a dec by another have returned, in either
\* order, and no thread is inside a call.
C18_Witness ==
  /\ arith.ok /\ arith.plain /\ arith.net = 0 /\ Quiescent
  /\ LastOp \in {"inc", "dec"} /\ After # Before
  /\ \A t \in 1..2 : done[t] = 1

====
